---------------------------- MODULE Spec2Model ----------------------------
(***************************************************************************)
(* Model of the two utilities of libreddit-instances:                      *)
(*   - generate-instances-markdown.py  (the Table Generator, SpecGen)      *)
(*   - libreddit-instance-picker.py    (the Instance Picker, SpecPick)     *)
(*                                                                         *)
(* Text is modelled as Python models it: a str is a sequence of Unicode    *)
(* code points, so that upper(), ord()/chr(), concatenation, formatting    *)
(* and lexicographic sorting are computed rather than assumed.  A JSON     *)
(* value is a tagged record (string or boolean); a JSON object is a        *)
(* function from its keys (strs) to JSON values.                           *)
(***************************************************************************)
EXTENDS Integers, Sequences, FiniteSets, TLC

VARIABLES
    \* ---- Table Generator: environment ----
    OUTPUT_FILE,    \* parsed_args.OUTPUT_FILE (a str; "-" is standard output)
    input,          \* INPUT_FILE: [readable, instances], the array it stores
    fs_out,         \* the path OUTPUT_FILE: [file: [exists, content], writable]
    stdout,         \* what the current process wrote to sys.stdout
    stderr,         \* the sys.stderr.write calls of the current process, in order
    runs,           \* how many times the generator has been started
    \* ---- Table Generator: main() ----
    pc,             \* position in main()
    rc,             \* value returned by main() (-1: not returned yet)
    out,            \* the handle `out`: "none", "stdout", "file", "closed"
    instances,      \* instances["instances"] once loaded
    idx,            \* number of iterations of the for loop completed
    table_rows,
    url, network, version, country, cloudflare, description, location,
    wi,             \* number of rows written by the final loop
    \* ---- Instance Picker ----
    ppc,            \* position in the picker script
    p_instances,    \* request.json()["instances"]
    address_keys,
    countries,
    key_choice,
    key_notice,     \* "Invalid selection. Defaulting to first option." printed
    selected_key,
    country_choice,
    country_notice, \* "Invalid selection. Showing all countries." printed
    selected_country,
    li,             \* number of items of the result loop visited
    printed         \* the lines printed by the result loop

genVars == <<OUTPUT_FILE, input, fs_out, stdout, stderr, runs, pc, rc, out,
             instances, idx, table_rows, url, network, version, country,
             cloudflare, description, location, wi>>
pickVars == <<ppc, p_instances, address_keys, countries, key_choice,
              key_notice, selected_key, country_choice, country_notice,
              selected_country, li, printed>>
vars == <<genVars, pickVars>>

---------------------------------------------------------------------------
(* Bounds *)
MaxInst == 2
MaxRuns == 2

---------------------------------------------------------------------------
(* Text constants, as code points *)
K_url         == <<117,114,108>>                              \* "url"
K_onion       == <<111,110,105,111,110>>                      \* "onion"
K_i2p         == <<105,50,112>>                               \* "i2p"
K_version     == <<118,101,114,115,105,111,110>>              \* "version"
K_country     == <<99,111,117,110,116,114,121>>               \* "country"
K_cloudflare  == <<99,108,111,117,100,102,108,97,114,101>>    \* "cloudflare"
K_description == <<100,101,115,99,114,105,112,116,105,111,110>> \* "description"

Dash     == <<45>>              \* "-"
NA       == <<40,110,47,97,41>> \* "(n/a)"
WWW      == <<87,87,87>>
Tor      == <<84,111,114>>
I2P      == <<73,50,80>>
CheckMark == <<9989>>           \* "✅"
Bar      == <<124>>             \* "|"
NL       == <<10>>              \* "\n"
Space    == <<32>>
Tab      == <<9>>
PyTrue   == <<84,114,117,101>>      \* "True"
PyFalse  == <<70,97,108,115,101>>   \* "False"

\* "|URL|Network|Version|Location|Behind Cloudflare?|Comment|\n|-|-|-|-|-|-|\n"
table_preamble ==
    <<124,85,82,76,124,78,101,116,119,111,114,107,124,86,101,114,115,105,111,
      110,124,76,111,99,97,116,105,111,110,124,66,101,104,105,110,100,32,67,
      108,111,117,100,102,108,97,114,101,63,124,67,111,109,109,101,110,116,
      124,10,124,45,124,45,124,45,124,45,124,45,124,45,124,10>>

SkipPrefix == <<83,107,105,112,112,105,110,103,32,39>>        \* "Skipping '"
\* "': no version recorded"
SkipSuffix == <<39,58,32,110,111,32,118,101,114,115,105,111,110,32,114,101,
                99,111,114,100,101,100>>
ErrOpenPrefix == <<69,114,114,111,114,32,111,112,101,110,105,110,103,32,39>> \* "Error opening '"
ForReading == <<39,32,102,111,114,32,114,101,97,100,105,110,103,58,10>>  \* "' for reading:\n"
ForWriting == <<39,32,102,111,114,32,119,114,105,116,105,110,103,58,10>> \* "' for writing:\n"
INPUT_FILE == <<105>>           \* the input path, "i"
OsError    == <<69>>            \* e.__str__(): the platform's message, "E"

---------------------------------------------------------------------------
(* JSON values *)
JStr(s)  == [t |-> "str",  s |-> s,     b |-> FALSE]
JBool(b) == [t |-> "bool", s |-> << >>, b |-> b]

\* Python truthiness of a JSON value ("" and false are falsy)
Truthy(v) == IF v.t = "bool" THEN v.b ELSE v.s # << >>
\* str(v), as print() and str.format() apply it
PyStr(v) == IF v.t = "str" THEN v.s ELSE IF v.b THEN PyTrue ELSE PyFalse

Has(obj, key) == key \in DOMAIN obj


---------------------------------------------------------------------------
(* Inputs of the Table Generator *)
AddrKeys == {K_url, K_onion, K_i2p}

\* the value each field carries in the input pool
PoolValue(key) ==
    CASE key = K_url         -> JStr(<<97>>)     \* "a"
      [] key = K_onion       -> JStr(<<98>>)     \* "b"
      [] key = K_i2p         -> JStr(<<99>>)     \* "c"
      [] key = K_version     -> JStr(<<49>>)     \* "1"
      [] key = K_description -> JStr(<<100>>)    \* "d"
      [] key = K_cloudflare  -> JBool(TRUE)
      [] OTHER               -> JStr(<<85,83>>)  \* "US"

Obj(keys) == [k \in keys |-> PoolValue(k)]

\* "US", "us", "U", "", "USA"
CountryValues == { <<85,83>>, <<117,115>>, <<85>>, << >>, <<85,83,65>> }

\* every combination of address fields, with and without version
NetPool == { Obj(D) : D \in SUBSET (AddrKeys \cup {K_version}) }
\* a www instance with version and each shape of the optional fields
MetaPool ==
    { [Obj({K_url, K_version, K_country}) EXCEPT ![K_country] = JStr(c)] :
          c \in CountryValues }
    \cup { Obj({K_url, K_version, K_cloudflare}),
           [Obj({K_url, K_version, K_cloudflare, K_description})
                EXCEPT ![K_cloudflare] = JBool(FALSE)],
           Obj({K_onion, K_version, K_country, K_cloudflare, K_description}) }
GenPool == NetPool \cup MetaPool

SeqsUpTo(S, n) == UNION { [1..k -> S] : k \in 0..n }

---------------------------------------------------------------------------
(* generate-instances-markdown.py *)
OFFSET == 127397

\* str.upper() on the ASCII range
Upper(c) == IF c \in 97..122 THEN c - 32 ELSE c

\* chr() raises ValueError above U+10FFFF
ChrOk(p) == p >= 0 /\ p <= 1114111

\* flag(code): [raised, value]; raised models the IndexError / ValueError
flag(code) ==
    IF code = << >>
    THEN [raised |-> FALSE, value |-> << >>]
    ELSE LET points == [i \in 1..Len(code) |-> Upper(code[i]) + OFFSET]
         IN IF Len(points) < 2
            THEN [raised |-> TRUE, value |-> << >>]
            ELSE IF ~ChrOk(points[1]) \/ ~ChrOk(points[2])
            THEN [raised |-> TRUE, value |-> << >>]
            ELSE [raised |-> FALSE, value |-> <<points[1], points[2]>>]

\* the try/except around flag() that sets `location`
Location(c) ==
    LET fl == flag(c)
    IN IF fl.raised THEN c ELSE fl.value \o Space \o c

Network_OnionFirst(instance) ==
    IF Has(instance, K_onion)
    THEN [found |-> TRUE, url |-> instance[K_onion].s, network |-> Tor]
    ELSE IF Has(instance, K_url)
    THEN [found |-> TRUE, url |-> instance[K_url].s, network |-> WWW]
    ELSE IF Has(instance, K_i2p)
    THEN [found |-> TRUE, url |-> instance[K_i2p].s, network |-> I2P]
    ELSE [found |-> FALSE, url |-> << >>, network |-> << >>]

\* the if/elif chain that sets `url` and `network`
Network(instance) ==
    IF Has(instance, K_url)
    THEN [found |-> TRUE, url |-> instance[K_url].s, network |-> WWW]
    ELSE IF Has(instance, K_onion)
    THEN [found |-> TRUE, url |-> instance[K_onion].s, network |-> Tor]
    ELSE IF Has(instance, K_i2p)
    THEN [found |-> TRUE, url |-> instance[K_i2p].s, network |-> I2P]
    ELSE [found |-> FALSE, url |-> << >>, network |-> << >>]

VersionMissing(instance) == ~Has(instance, K_version)

SkipWarning_NoAddress(u) == SkipPrefix \o SkipSuffix

\* "Skipping '{}': no version recorded".format(url)
SkipWarning(u) == SkipPrefix \o u \o SkipSuffix

\* "|{0}|{1}|{2}|{3}|{4}|{5}|\n".format(...)
FormatRow(u, n, v, loc, cf, d) ==
    Bar \o u \o Bar \o n \o Bar \o v \o Bar \o loc \o Bar
        \o (IF cf THEN CheckMark ELSE << >>) \o Bar \o d \o Bar \o NL

AppendRow_Prepend(rows, row) == <<row>> \o rows

\* table_rows.append(row)
AppendRow(rows, row) == Append(rows, row)

OpenMode_Append(exists) == "a"

\* mode = "x", or "w" when the path exists
OpenMode(exists) == IF exists THEN "w" ELSE "x"

OpenFile_CreateFirst(file, mode, writable) ==
    IF ~writable
    THEN [raised |-> TRUE, file |-> [exists |-> TRUE, content |-> << >>]]
    ELSE [raised |-> FALSE, file |-> [exists |-> TRUE, content |-> << >>]]

\* open(path, mode): [raised, file]; a failed open leaves the path as it was
OpenFile(file, mode, writable) ==
    IF ~writable
    THEN [raised |-> TRUE, file |-> file]
    ELSE IF mode = "x" /\ file.exists
    THEN [raised |-> TRUE, file |-> file]
    ELSE IF mode = "a"
    THEN [raised |-> FALSE,
          file |-> [exists |-> TRUE, content |-> file.content]]
    ELSE [raised |-> FALSE, file |-> [exists |-> TRUE, content |-> << >>]]


---------------------------------------------------------------------------
(* main(), one action per step *)

\* content left at the output path by something else, "junk\n"
PriorContent == <<106,117,110,107,10>>
PriorFiles == { [exists |-> FALSE, content |-> << >>],
                [exists |-> TRUE,  content |-> PriorContent] }

\* the locals of a fresh call of main()
FreshMain ==
    /\ pc = "open_input"
    /\ rc = -1
    /\ out = "none"
    /\ instances = << >>
    /\ idx = 0
    /\ table_rows = << >>
    /\ url = << >> /\ network = << >> /\ version = << >>
    /\ country = << >> /\ cloudflare = FALSE /\ description = << >>
    /\ location = << >>
    /\ wi = 0
    /\ stdout = << >>
    /\ stderr = << >>

GenInit ==
    /\ OUTPUT_FILE \in {Dash, <<111>>}      \* "-" or the path "o"
    /\ input \in [readable : BOOLEAN, instances : SeqsUpTo(GenPool, MaxInst)]
    /\ fs_out \in [file : PriorFiles, writable : BOOLEAN]
    /\ runs = 1
    /\ FreshMain

\* lines 92-94: the input opens and parses
OpenInputOk ==
    /\ pc = "open_input"
    /\ input.readable
    /\ instances' = input.instances
    /\ pc' = "open_output"
    /\ UNCHANGED <<OUTPUT_FILE, input, fs_out, stdout, stderr, runs, rc, out,
                   idx, table_rows, url, network, version, country,
                   cloudflare, description, location, wi>>
    /\ UNCHANGED pickVars

\* lines 95-98
OpenInputFail ==
    /\ pc = "open_input"
    /\ ~input.readable
    /\ stderr' = stderr \o << ErrOpenPrefix \o INPUT_FILE \o ForReading,
                              Tab \o OsError \o NL >>
    /\ rc' = 1
    /\ pc' = "done"
    /\ UNCHANGED <<OUTPUT_FILE, input, fs_out, stdout, runs, out, instances,
                   idx, table_rows, url, network, version, country,
                   cloudflare, description, location, wi>>
    /\ UNCHANGED pickVars

\* lines 100-101
OpenOutputStdout ==
    /\ pc = "open_output"
    /\ OUTPUT_FILE = Dash
    /\ out' = "stdout"
    /\ pc' = "loop"
    /\ UNCHANGED <<OUTPUT_FILE, input, fs_out, stdout, stderr, runs, rc,
                   instances, idx, table_rows, url, network, version, country,
                   cloudflare, description, location, wi>>
    /\ UNCHANGED pickVars

\* lines 102-111
OpenOutputFile ==
    /\ pc = "open_output"
    /\ OUTPUT_FILE # Dash
    /\ LET r == OpenFile(fs_out.file, OpenMode(fs_out.file.exists),
                         fs_out.writable)
       IN /\ fs_out' = [fs_out EXCEPT !.file = r.file]
          /\ IF r.raised
             THEN /\ stderr' = stderr \o
                        << ErrOpenPrefix \o OUTPUT_FILE \o ForWriting,
                           Tab \o OsError \o NL >>
                  /\ rc' = 1
                  /\ pc' = "done"
                  /\ out' = out
             ELSE /\ out' = "file"
                  /\ pc' = "loop"
                  /\ UNCHANGED <<stderr, rc>>
    /\ UNCHANGED <<OUTPUT_FILE, input, stdout, runs, instances, idx,
                   table_rows, url, network, version, country, cloudflare,
                   description, location, wi>>
    /\ UNCHANGED pickVars

\* lines 115-167: one iteration of the for loop
LoopBody ==
    /\ pc = "loop"
    /\ idx < Len(instances)
    /\ idx' = idx + 1
    /\ LET instance == instances[idx + 1]
           net == Network(instance)
       IN IF ~net.found
          THEN \* line 134: continue
               /\ url' = << >> /\ network' = << >> /\ version' = << >>
               /\ country' = NA /\ cloudflare' = FALSE /\ description' = << >>
               /\ UNCHANGED <<location, table_rows, stderr>>
          ELSE IF VersionMissing(instance)
          THEN \* lines 139-140
               /\ url' = net.url /\ network' = net.network /\ version' = << >>
               /\ country' = NA /\ cloudflare' = FALSE /\ description' = << >>
               /\ stderr' = Append(stderr, SkipWarning(net.url))
               /\ UNCHANGED <<location, table_rows>>
          ELSE LET v  == instance[K_version].s
                   c  == IF Has(instance, K_country)
                         THEN instance[K_country].s ELSE NA
                   cf == Has(instance, K_cloudflare)
                            /\ Truthy(instance[K_cloudflare])
                   d  == IF Has(instance, K_description)
                         THEN instance[K_description].s ELSE << >>
                   loc == Location(c)
               IN /\ url' = net.url /\ network' = net.network /\ version' = v
                  /\ country' = c /\ cloudflare' = cf /\ description' = d
                  /\ location' = loc
                  /\ table_rows' = AppendRow(table_rows,
                        FormatRow(net.url, net.network, v, loc, cf, d))
                  /\ UNCHANGED stderr
    /\ UNCHANGED <<OUTPUT_FILE, input, fs_out, stdout, runs, pc, rc, out,
                   instances, wi>>
    /\ UNCHANGED pickVars

\* out.write(s) on the handle `out`
Write(s) ==
    IF out = "stdout"
    THEN /\ stdout' = stdout \o s
         /\ UNCHANGED fs_out
    ELSE /\ fs_out' = [fs_out EXCEPT !.file.content = @ \o s]
         /\ UNCHANGED stdout

\* line 169
WritePreamble ==
    /\ pc = "loop"
    /\ idx = Len(instances)
    /\ Write(table_preamble)
    /\ pc' = "write_rows"
    /\ UNCHANGED <<OUTPUT_FILE, input, stderr, runs, rc, out, instances, idx,
                   table_rows, url, network, version, country, cloudflare,
                   description, location, wi>>
    /\ UNCHANGED pickVars

\* lines 170-171
WriteRow ==
    /\ pc = "write_rows"
    /\ wi < Len(table_rows)
    /\ Write(table_rows[wi + 1])
    /\ wi' = wi + 1
    /\ UNCHANGED <<OUTPUT_FILE, input, stderr, runs, pc, rc, out, instances,
                   idx, table_rows, url, network, version, country,
                   cloudflare, description, location>>
    /\ UNCHANGED pickVars

\* lines 172-174
Close ==
    /\ pc = "write_rows"
    /\ wi = Len(table_rows)
    /\ out' = "closed"
    /\ rc' = 0
    /\ pc' = "done"
    /\ UNCHANGED <<OUTPUT_FILE, input, fs_out, stdout, stderr, runs,
                   instances, idx, table_rows, url, network, version, country,
                   cloudflare, description, location, wi>>
    /\ UNCHANGED pickVars

\* lines 176-178: the script is started again with the same arguments
Rerun ==
    /\ pc = "done"
    /\ runs < MaxRuns
    /\ runs' = runs + 1
    /\ pc' = "open_input" /\ rc' = -1 /\ out' = "none"
    /\ instances' = << >> /\ idx' = 0 /\ table_rows' = << >> /\ wi' = 0
    /\ url' = << >> /\ network' = << >> /\ version' = << >>
    /\ country' = << >> /\ cloudflare' = FALSE /\ description' = << >>
    /\ location' = << >>
    /\ stdout' = << >> /\ stderr' = << >>
    /\ UNCHANGED <<OUTPUT_FILE, input, fs_out>>
    /\ UNCHANGED pickVars

GenNext ==
    \/ OpenInputOk
    \/ OpenInputFail
    \/ OpenOutputStdout
    \/ OpenOutputFile
    \/ LoopBody
    \/ WritePreamble
    \/ WriteRow
    \/ Close
    \/ Rerun


---------------------------------------------------------------------------
(* libreddit-instance-picker.py: helpers *)

\* str < str: lexicographic order on code points
RECURSIVE LexLess(_, _)
LexLess(a, b) ==
    IF b = << >> THEN FALSE
    ELSE IF a = << >> THEN TRUE
    ELSE IF Head(a) # Head(b) THEN Head(a) < Head(b)
    ELSE LexLess(Tail(a), Tail(b))

\* sorted(S) for a set of strs
RECURSIVE Sorted(_)
Sorted(S) ==
    IF S = {} THEN << >>
    ELSE LET m == CHOOSE x \in S : \A y \in S : x = y \/ LexLess(x, y)
         IN <<m>> \o Sorted(S \ {m})

ExcludedKeys_NoDescription == {K_country, K_version}

\* line 22: the keys that are not address kinds
ExcludedKeys == {K_country, K_version, K_description}

\* lines 14-23: the loop that fills the two sets, from item i on
RECURSIVE Collect(_, _, _)
Collect(items, i, acc) ==
    IF i > Len(items) THEN acc
    ELSE LET item == items[i]
             cs == IF Has(item, K_country)
                   THEN acc.countries \cup {item[K_country].s}
                   ELSE acc.countries
             ks == acc.keys \cup { k \in DOMAIN item : k \notin ExcludedKeys }
         IN Collect(items, i + 1, [keys |-> ks, countries |-> cs])

\* str.strip()
IsSpace(c) == c \in {9, 10, 11, 12, 13, 28, 29, 30, 31, 32}
RECURSIVE LStrip(_)
LStrip(s) == IF s # << >> /\ IsSpace(Head(s)) THEN LStrip(Tail(s)) ELSE s
RECURSIVE RStrip(_)
RStrip(s) ==
    IF s # << >> /\ IsSpace(s[Len(s)])
    THEN RStrip(SubSeq(s, 1, Len(s) - 1)) ELSE s
Strip(s) == RStrip(LStrip(s))

IsDigit(c) == c \in 48..57

\* the digits of an int literal: digits, single underscores between them
DigitsOk(d) ==
    /\ d # << >>
    /\ IsDigit(d[1]) /\ IsDigit(d[Len(d)])
    /\ \A i \in 1..Len(d) : IsDigit(d[i]) \/ d[i] = 95
    /\ \A i \in 1..(Len(d) - 1) : ~(d[i] = 95 /\ d[i + 1] = 95)

RECURSIVE DigitsValue(_, _)
DigitsValue(d, acc) ==
    IF d = << >> THEN acc
    ELSE IF Head(d) = 95 THEN DigitsValue(Tail(d), acc)
    ELSE DigitsValue(Tail(d), 10 * acc + (Head(d) - 48))

\* int(s): [ok, value]; ~ok models the ValueError
ParseInt(s) ==
    LET t == Strip(s)
        signed == t # << >> /\ t[1] \in {43, 45}
        d == IF signed THEN Tail(t) ELSE t
    IN IF ~DigitsOk(d) THEN [ok |-> FALSE, value |-> 0]
       ELSE [ok |-> TRUE,
             value |-> IF signed /\ t[1] = 45
                       THEN 0 - DigitsValue(d, 0) ELSE DigitsValue(d, 0)]

\* seq[i] with Python's list indexing: [raised, value]; raised is IndexError
PyIndex(seq, i, default) ==
    IF i >= 0 /\ i < Len(seq) THEN [raised |-> FALSE, value |-> seq[i + 1]]
    ELSE IF i < 0 /\ i >= 0 - Len(seq)
    THEN [raised |-> FALSE, value |-> seq[Len(seq) + i + 1]]
    ELSE [raised |-> TRUE, value |-> default]

None    == [none |-> TRUE,  s |-> << >>]
Some(s) == [none |-> FALSE, s |-> s]

Matches_IgnoreCountry(item, key, sel) ==
    Has(item, key) /\ Truthy(item[key])

\* lines 71-72: whether the result loop prints the item
Matches(item, key, sel) ==
    /\ Has(item, key) /\ Truthy(item[key])
    /\ \/ sel.none
       \/ Has(item, K_country) /\ Some(item[K_country].s) = sel

---------------------------------------------------------------------------
(* Inputs of the Instance Picker *)
PickPool ==
    { (K_url :> JStr(<<97>>)) @@ (K_version :> JStr(<<49>>))
          @@ (K_country :> JStr(<<85,83>>)),                       \* a, US
      (K_url :> JStr(<<101>>)) @@ (K_onion :> JStr(<<98>>))
          @@ (K_version :> JStr(<<49>>)) @@ (K_country :> JStr(<<68,69>>))
          @@ (K_cloudflare :> JBool(TRUE)),                        \* e, b, DE
      (K_onion :> JStr(<<103>>)) @@ (K_version :> JStr(<<49>>))
          @@ (K_description :> JStr(<<100>>)),                     \* g
      (K_url :> JStr(<< >>)) @@ (K_country :> JStr(<<85,83>>)),    \* "", US
      (K_url :> JStr(<<102>>)) @@ (K_cloudflare :> JBool(FALSE)),  \* f
      (K_i2p :> JStr(<<99>>)) @@ (K_country :> JStr(<<68,69>>))
          @@ (K_version :> JStr(<<49>>)),                          \* c, DE
      (K_version :> JStr(<<49>>)),
      (K_country :> JStr(<<70,82>>)) @@ (K_description :> JStr(<<100>>)) }

\* what the user may type: "", "0", "1", "2", "3", "-1", "00", "x", " 2 ",
\* "+1", "-5", "9"
InputLines ==
    { << >>, <<48>>, <<49>>, <<50>>, <<51>>, <<45,49>>, <<48,48>>, <<120>>,
      <<32,50,32>>, <<43,49>>, <<45,53>>, <<57>> }


---------------------------------------------------------------------------
(* the picker script, one action per step *)

PickFresh ==
    /\ address_keys = << >>
    /\ countries = << >>
    /\ key_choice = << >>
    /\ key_notice = FALSE
    /\ selected_key = << >>
    /\ country_choice = << >>
    /\ country_notice = FALSE
    /\ selected_country = None
    /\ li = 0
    /\ printed = << >>

PickInit ==
    /\ ppc = "fetch"
    /\ p_instances \in SeqsUpTo(PickPool, MaxInst)
    /\ PickFresh

\* lines 7-12: the document arrives and has both fields
FetchOk ==
    /\ ppc = "fetch"
    /\ ppc' = "derive"
    /\ UNCHANGED <<p_instances, address_keys, countries, key_choice,
                   key_notice, selected_key, country_choice, country_notice,
                   selected_country, li, printed>>
    /\ UNCHANGED genVars

\* lines 9-11: the request or the parse raises; nothing catches it
FetchFail ==
    /\ ppc = "fetch"
    /\ ppc' = "crashed"
    /\ UNCHANGED <<p_instances, address_keys, countries, key_choice,
                   key_notice, selected_key, country_choice, country_notice,
                   selected_country, li, printed>>
    /\ UNCHANGED genVars

\* lines 14-25
Derive ==
    /\ ppc = "derive"
    /\ LET acc == Collect(p_instances, 1, [keys |-> {}, countries |-> {}])
       IN /\ address_keys' = Sorted(acc.keys)
          /\ countries' = Sorted(acc.countries)
    /\ ppc' = "ask_key"
    /\ UNCHANGED <<p_instances, key_choice, key_notice, selected_key,
                   country_choice, country_notice, selected_country, li,
                   printed>>
    /\ UNCHANGED genVars

\* lines 28-36
AskKey ==
    /\ ppc = "ask_key"
    /\ \E line \in InputLines :
         LET choice == Strip(line)
             n == ParseInt(choice)
             hit == PyIndex(address_keys, n.value - 1, << >>)
         IN /\ key_choice' = choice
            /\ IF n.ok /\ ~hit.raised
               THEN /\ selected_key' = hit.value
                    /\ ppc' = "ask_country"
                    /\ UNCHANGED key_notice
               ELSE \* except (ValueError, IndexError)
                    /\ key_notice' = TRUE
                    /\ IF address_keys = << >>
                       THEN \* address_keys[0] raises IndexError, uncaught
                            /\ ppc' = "crashed"
                            /\ UNCHANGED selected_key
                       ELSE /\ selected_key' = address_keys[1]
                            /\ ppc' = "ask_country"
    /\ UNCHANGED <<p_instances, address_keys, countries, country_choice,
                   country_notice, selected_country, li, printed>>
    /\ UNCHANGED genVars

\* lines 39-51
AskCountry ==
    /\ ppc = "ask_country"
    /\ \E line \in InputLines :
         LET choice == Strip(line)
             n == ParseInt(choice)
             hit == PyIndex(countries, n.value - 1, << >>)
         IN /\ country_choice' = choice
            /\ IF choice = <<48>>
               THEN /\ selected_country' = None
                    /\ UNCHANGED country_notice
               ELSE IF n.ok /\ ~hit.raised
               THEN /\ selected_country' = Some(hit.value)
                    /\ UNCHANGED country_notice
               ELSE /\ country_notice' = TRUE
                    /\ selected_country' = None
    /\ ppc' = "list"
    /\ UNCHANGED <<p_instances, address_keys, countries, key_choice,
                   key_notice, selected_key, li, printed>>
    /\ UNCHANGED genVars

\* lines 70-73: one iteration of the result loop
ListItem ==
    /\ ppc = "list"
    /\ li < Len(p_instances)
    /\ li' = li + 1
    /\ LET item == p_instances[li + 1]
       IN IF Matches(item, selected_key, selected_country)
          THEN printed' = Append(printed, PyStr(item[selected_key]))
          ELSE UNCHANGED printed
    /\ UNCHANGED <<ppc, p_instances, address_keys, countries, key_choice,
                   key_notice, selected_key, country_choice, country_notice,
                   selected_country>>
    /\ UNCHANGED genVars

\* line 76
Exit ==
    /\ ppc = "list"
    /\ li = Len(p_instances)
    /\ ppc' = "done"
    /\ UNCHANGED <<p_instances, address_keys, countries, key_choice,
                   key_notice, selected_key, country_choice, country_notice,
                   selected_country, li, printed>>
    /\ UNCHANGED genVars

PickNext ==
    \/ FetchOk
    \/ FetchFail
    \/ Derive
    \/ AskKey
    \/ AskCountry
    \/ ListItem
    \/ Exit

---------------------------------------------------------------------------
(* Specifications: each program runs alone *)

GenIdle ==
    /\ OUTPUT_FILE = Dash
    /\ input = [readable |-> FALSE, instances |-> << >>]
    /\ fs_out = [file |-> [exists |-> FALSE, content |-> << >>],
                 writable |-> FALSE]
    /\ runs = 0
    /\ pc = "idle" /\ rc = -1 /\ out = "none" /\ instances = << >>
    /\ idx = 0 /\ table_rows = << >> /\ wi = 0
    /\ url = << >> /\ network = << >> /\ version = << >> /\ country = << >>
    /\ cloudflare = FALSE /\ description = << >> /\ location = << >>
    /\ stdout = << >> /\ stderr = << >>

PickIdle ==
    /\ ppc = "idle"
    /\ p_instances = << >>
    /\ PickFresh

InitGen == GenInit /\ PickIdle

SpecGen == InitGen /\ [][GenNext]_vars

InitPick == PickInit /\ GenIdle

SpecPick == InitPick /\ [][PickNext]_vars


---------------------------------------------------------------------------
(* Properties of the Table Generator *)

RECURSIVE Concat(_)
Concat(ss) == IF ss = << >> THEN << >> ELSE Head(ss) \o Concat(Tail(ss))

IsPrefix(p, s) == Len(p) <= Len(s) /\ SubSeq(s, 1, Len(p)) = p

HasAddress(inst) == \E k \in AddrKeys : k \in DOMAIN inst
HasVersion(inst) == K_version \in DOMAIN inst
Eligible(inst) == HasAddress(inst) /\ HasVersion(inst)

\* the row main() formats for an eligible instance
RowOf(inst) ==
    FormatRow(Network(inst).url, Network(inst).network, inst[K_version].s,
              Location(IF Has(inst, K_country) THEN inst[K_country].s ELSE NA),
              Has(inst, K_cloudflare) /\ Truthy(inst[K_cloudflare]),
              IF Has(inst, K_description) THEN inst[K_description].s
              ELSE << >>)

RowsOf(insts) ==
    LET e == SelectSeq(insts, Eligible)
    IN [i \in 1..Len(e) |-> RowOf(e[i])]

TableOf(insts) == table_preamble \o Concat(RowsOf(insts))

\* where the table goes
Output == IF OUTPUT_FILE = Dash THEN stdout ELSE fs_out.file.content

Succeeded == pc = "done" /\ rc = 0

\* C1: a run that reaches the write phase has emitted the header and the
\* separator, then exactly one row per instance that has an address field
\* and a version, in input order, and nothing for any other instance.
C1_TableRows ==
    Succeeded =>
        /\ table_rows = RowsOf(input.instances)
        /\ Output = table_preamble \o Concat(table_rows)
        /\ IsPrefix(table_preamble, Output)

C1_Witness ==
    /\ Succeeded
    /\ Len(input.instances) = 2
    /\ ~Eligible(input.instances[1])
    /\ Eligible(input.instances[2])
    /\ Output = table_preamble \o RowOf(input.instances[2])

IsLetter(c) == c \in 65..90 \/ c \in 97..122
TwoLetterCode(s) == Len(s) = 2 /\ IsLetter(s[1]) /\ IsLetter(s[2])

\* C2: for an eligible instance whose resolved country (with the default
\* "(n/a)") is not a two-letter code, the location cell is the raw country
\* string, with no flag in front.
C2_RawLocationFallback ==
    (pc \in {"loop", "write_rows", "done"} /\ idx >= 1
        /\ Eligible(instances[idx]) /\ ~TwoLetterCode(country))
    => location = country

FailsToOpen ==
    ~input.readable \/ (OUTPUT_FILE # Dash /\ ~fs_out.writable)

\* C5: when the input or the output cannot be opened main() returns 1 and
\* no step of the run changes the output path or standard output; a run
\* whose opens both succeed returns 0.
C5_OpenFailures ==
    [][ /\ FailsToOpen => (fs_out' = fs_out /\ stdout' = stdout)
        /\ pc' = "done" => rc' = (IF FailsToOpen THEN 1 ELSE 0) ]_vars

C5_Witness ==
    /\ pc = "done" /\ rc = 1
    /\ input.readable
    /\ OUTPUT_FILE # Dash /\ ~fs_out.writable
    /\ fs_out.file = [exists |-> TRUE, content |-> PriorContent]
    /\ stdout = << >>

\* C6: the address and the label of an instance come from the first present
\* field among url, onion, i2p ("WWW", "Tor", "I2P"), whatever other address
\* fields it has, and each instance adds at most one row.
C6_NetworkPriority ==
    (pc \in {"loop", "write_rows", "done"} /\ idx >= 1) =>
        LET inst == instances[idx]
        IN /\ Has(inst, K_url) =>
                  (network = WWW /\ url = inst[K_url].s)
           /\ (~Has(inst, K_url) /\ Has(inst, K_onion)) =>
                  (network = Tor /\ url = inst[K_onion].s)
           /\ (~Has(inst, K_url) /\ ~Has(inst, K_onion) /\ Has(inst, K_i2p)) =>
                  (network = I2P /\ url = inst[K_i2p].s)
           /\ Eligible(inst) =>
                  /\ table_rows # << >>
                  /\ IsPrefix(Bar \o url \o Bar \o network \o Bar,
                              table_rows[Len(table_rows)])
           /\ Len(table_rows) =
                  Cardinality({ i \in 1..idx : Eligible(instances[i]) })

C6_Witness ==
    /\ pc = "loop" /\ idx = 2
    /\ DOMAIN instances[1] = {K_url, K_onion, K_i2p, K_version}
    /\ DOMAIN instances[2] = {K_onion, K_i2p, K_version}
    /\ network = Tor
    /\ Len(table_rows) = 2
    /\ IsPrefix(Bar \o instances[1][K_url].s \o Bar \o WWW \o Bar,
                table_rows[1])

\* the instances that are skipped with a warning
Warned(insts) ==
    SelectSeq(insts, LAMBDA inst : HasAddress(inst) /\ ~HasVersion(inst))

FirstAddress(inst) ==
    IF Has(inst, K_url) THEN inst[K_url].s
    ELSE IF Has(inst, K_onion) THEN inst[K_onion].s
    ELSE inst[K_i2p].s

\* C8: after the pass over the array the error stream holds exactly one
\* warning, "Skipping '<address>': no version recorded", per instance that
\* has an address field and no version, none for any other instance, and
\* the table output holds no warning.
C8_SkipWarnings ==
    (pc = "write_rows" \/ Succeeded) =>
        LET w == Warned(instances)
        IN /\ Len(stderr) = Len(w)
           /\ \A i \in 1..Len(w) :
                 stderr[i] = SkipPrefix \o FirstAddress(w[i]) \o SkipSuffix
           /\ IsPrefix(Output, TableOf(instances))

C8_Witness ==
    /\ Succeeded
    /\ Len(instances) = 2
    /\ DOMAIN instances[1] = {}
    /\ DOMAIN instances[2] = {K_onion}
    /\ stderr = << SkipPrefix \o <<98>> \o SkipSuffix >>

\* C10: a successful run leaves at the output path exactly the table of the
\* input, whatever the path held before, and so does a second run on the
\* same input, which finds the first run's table there when it starts.
C10_Overwrite ==
    /\ (Succeeded /\ OUTPUT_FILE # Dash) =>
           fs_out.file = [exists |-> TRUE,
                          content |-> TableOf(input.instances)]
    /\ (runs >= 2 /\ pc \in {"open_input", "open_output"}
           /\ OUTPUT_FILE # Dash /\ ~FailsToOpen) =>
           fs_out.file.content = TableOf(input.instances)

C10_Witness ==
    /\ Succeeded /\ runs = 2
    /\ OUTPUT_FILE # Dash
    /\ Len(table_rows) = 2
    /\ fs_out.file.content = TableOf(input.instances)


---------------------------------------------------------------------------
(* Properties of the Instance Picker *)

KeyChosen == ppc \in {"ask_country", "list", "done"}
CountryChosen == ppc \in {"list", "done"}
Derived == ppc \in {"ask_key", "ask_country", "list", "done"}

\* C3: with a non-empty key list, a line that is no integer or an integer
\* outside 1..len(keys) selects the first key; an integer k in 1..len(keys)
\* selects the k-th key.
C3_KeyDefault ==
    (KeyChosen /\ address_keys # << >>) =>
        LET n == ParseInt(key_choice)
        IN IF n.ok /\ n.value \in 1..Len(address_keys)
           THEN selected_key = address_keys[n.value]
           ELSE selected_key = address_keys[1]

\* C4: the line "0", a line that is no integer and an integer outside
\* 1..len(countries) select all countries; an integer k in
\* 1..len(countries) selects the k-th country.
C4_CountryDefault ==
    CountryChosen =>
        LET n == ParseInt(country_choice)
        IN IF n.ok /\ n.value \in 1..Len(countries)
           THEN selected_country = Some(countries[n.value])
           ELSE selected_country = None

\* an item belongs in the listing when the selected field is present and
\* non-empty (false counts as empty) and the country is the selected one
Listed(item) ==
    /\ selected_key \in DOMAIN item
    /\ item[selected_key] \notin {JStr(<< >>), JBool(FALSE)}
    /\ ~selected_country.none =>
           (K_country \in DOMAIN item
               /\ item[K_country].s = selected_country.s)

\* C7: the result loop prints, in input order, the selected field of every
\* instance that has it non-empty and, when a country is selected, has that
\* country; with all countries selected the country excludes no instance.
C7_ResultListing ==
    ppc = "done" =>
        LET hits == SelectSeq(p_instances, Listed)
        IN printed = [i \in 1..Len(hits) |-> PyStr(hits[i][selected_key])]

C7_Witness ==
    /\ ppc = "done"
    /\ Len(p_instances) = 2
    /\ selected_key = K_url
    /\ selected_country = Some(<<85,83>>)
    /\ Has(p_instances[1], K_url) /\ Truthy(p_instances[1][K_url])
    /\ Has(p_instances[1], K_country)
    /\ p_instances[1][K_country].s = <<68,69>>
    /\ printed = << <<97>> >>

StrictlySorted(s) == \A i \in 1..(Len(s) - 1) : LexLess(s[i], s[i + 1])
Range(s) == { s[i] : i \in 1..Len(s) }

\* C9: the key list is the sorted, duplicate-free list of every key seen on
\* some instance other than country, version and description, and the
\* country list is the sorted, duplicate-free list of the country values.
C9_Derivation ==
    Derived =>
        /\ StrictlySorted(address_keys)
        /\ Range(address_keys) =
              (UNION { DOMAIN p_instances[i] : i \in 1..Len(p_instances) })
                  \ {K_country, K_version, K_description}
        /\ StrictlySorted(countries)
        /\ Range(countries) =
              { p_instances[i][K_country].s :
                    i \in { j \in 1..Len(p_instances) :
                              K_country \in DOMAIN p_instances[j] } }

C9_Witness ==
    /\ ppc = "ask_key"
    /\ address_keys = <<K_cloudflare, K_onion, K_url>>
    /\ countries = << <<68,69>>, <<70,82>> >>
    /\ \E i \in 1..Len(p_instances) : K_description \in DOMAIN p_instances[i]

==========================================================================
